---------------------------- MODULE Spec2Model ----------------------------
(***************************************************************************)
(* A model of the trainer-scout batch scripts:                             *)
(*   scripts/analyze_trainer_feedback.py  (normalise, split, rank, quotes, *)
(*                                         write results.json/.csv/.html)  *)
(*   scripts/generate_outreach.py         (read results.json, one e-mail   *)
(*                                         per ranked trainer)             *)
(*                                                                         *)
(* Numbers.  Survey scores are floats in the code.  Here a score is an     *)
(* integer number of 1/Scale units (fixed point, 4 decimals) and every     *)
(* mean is an exact rational [n, d] over those units, so comparisons are   *)
(* exact.  Infinite and NaN score values (float("inf")) are outside the    *)
(* modelled input domain.                                                  *)
(*                                                                         *)
(* Text.  A free-text answer is a sequence of one-character strings, so    *)
(* strip(), lower(), len(), the keyword search and the truncation are      *)
(* computed character by character as the code does.                       *)
(***************************************************************************)
EXTENDS Integers, Sequences, FiniteSets, TLC

VARIABLES
    pc,              \* position of analyze_trainer_feedback.main
    csv,             \* the rows of the input file, as read_csv delivers them
    df,              \* the data frame (list of row records)
    trainer_stats,   \* list of per-trainer statistics
    results,         \* list of ranked result records
    gi,              \* the group loop: index of the next group
    halves,          \* the group loop: trainer -> its early_half and late_half
    files,           \* outputs/ : file name -> "absent" | "partial" | "complete"
    opc,             \* position of generate_outreach.main
    trainers,        \* generate_outreach: the list loaded from results.json
    outreach_emails  \* generate_outreach: the e-mails generated so far

vars == <<pc, csv, df, gi, halves, trainer_stats, results, files, opc, trainers, outreach_emails>>

-----------------------------------------------------------------------------
(* Program constants *)

MinResponses == 3
TopTrainers == 2
MinQuoteLen == 20
MaxQuoteLen == 200
TopQuotes == 2
RowIdWidth == 4

(* One score unit is 1/Scale; 1.0 is Scale units. *)
Scale == 10 * 1000

(* Bounds of the model *)
MaxPer == 3          \* rows per trainer in the ranking inputs
MaxRows == 4         \* rows of the free-form cohort inputs
MaxQuoteRows == 3    \* rows of the quote inputs

-----------------------------------------------------------------------------
(* Generic sequence helpers *)

Range(s) == {s[i] : i \in 1..Len(s)}

Rep(c, n) == [i \in 1..n |-> c]

RECURSIVE SelectIdx(_, _, _)
(* the indices i (ascending, from i on) of s whose element satisfies keep *)
SelectIdx(keep, n, i) ==
    IF i > n THEN <<>>
    ELSE (IF keep[i] THEN <<i>> ELSE <<>>) \o SelectIdx(keep, n, i + 1)

Take(s, n) == SubSeq(s, 1, IF n < Len(s) THEN n ELSE Len(s))

RECURSIVE InsertSorted(_, _, _)
(* insert index x into the index list s, which is kept descending by key;
   geq[a][b] says key(a) >= key(b).  x goes after every element whose key is
   >= its own, so equal keys keep their order of arrival *)
InsertSorted(s, x, geq) ==
    IF s = <<>> THEN <<x>>
    ELSE IF geq[Head(s)][x] THEN <<Head(s)>> \o InsertSorted(Tail(s), x, geq)
    ELSE <<x>> \o s

RECURSIVE StableSortDesc(_, _)
(* list.sort(key=..., reverse=True) on the index list idx: descending by key,
   equal keys keep their original order *)
StableSortDesc(idx, geq) ==
    IF idx = <<>> THEN <<>>
    ELSE InsertSorted(StableSortDesc(SubSeq(idx, 1, Len(idx) - 1), geq),
                      idx[Len(idx)], geq)

-----------------------------------------------------------------------------
(* Text: characters, str.strip(), str.lower(), substring search *)

Whitespace == {" ", "\t", "\n"}

UpperChars == <<"A", "B", "C", "D", "E", "F", "G", "H", "I", "J", "K", "L", "M", "N", "O", "P", "Q", "R", "S", "T", "U", "V", "W", "X", "Y", "Z">>
LowerChars == <<"a", "b", "c", "d", "e", "f", "g", "h", "i", "j", "k", "l", "m", "n", "o", "p", "q", "r", "s", "t", "u", "v", "w", "x", "y", "z">>

(* str.lower() on one character *)
LowerChar(c) ==
    IF \E i \in 1..Len(UpperChars) : UpperChars[i] = c
    THEN LowerChars[CHOOSE i \in 1..Len(UpperChars) : UpperChars[i] = c]
    ELSE c

Lower(s) == [i \in 1..Len(s) |-> LowerChar(s[i])]

(* str.strip(): drop leading and trailing whitespace *)
Strip(s) ==
    LET keep == {i \in 1..Len(s) : s[i] \notin Whitespace}
    IN  IF keep = {} THEN <<>>
        ELSE LET lo == CHOOSE i \in keep : \A j \in keep : i <= j
                 hi == CHOOSE i \in keep : \A j \in keep : i >= j
             IN  SubSeq(s, lo, hi)

(* `k in s` for strings: k occurs in s as a contiguous substring *)
Contains(s, k) ==
    \E i \in 1..(Len(s) - Len(k) + 1) : SubSeq(s, i, i + Len(k) - 1) = k

(* positive_keywords, in the order of the source list *)
positive_keywords ==
    << <<"e", "x", "c", "e", "l", "l", "e", "n", "t">>,
       <<"g", "r", "e", "a", "t">>,
       <<"l", "o", "v", "e">>,
       <<"h", "e", "l", "p", "f", "u", "l">>,
       <<"e", "n", "j", "o", "y", "e", "d">>,
       <<"b", "e", "n", "e", "f", "i", "c", "i", "a", "l">>,
       <<"b", "e", "s", "t">>,
       <<"a", "p", "p", "r", "e", "c", "i", "a", "t", "e", "d">>,
       <<"w", "o", "n", "d", "e", "r", "f", "u", "l">>,
       <<"p", "o", "s", "i", "t", "i", "v", "e">>,
       <<"f", "u", "n">>,
       <<"e", "n", "g", "a", "g", "i", "n", "g">>,
       <<"m", "o", "t", "i", "v", "a", "t", "e", "d">>,
       <<"p", "a", "t", "i", "e", "n", "t">>,
       <<"c", "l", "e", "a", "r">>,
       <<"f", "r", "i", "e", "n", "d", "l", "y">>,
       <<"a", "p", "p", "r", "o", "a", "c", "h", "a", "b", "l", "e">>,
       <<"f", "l", "e", "x", "i", "b", "l", "e">> >>

Ellipsis == <<".", ".", ".">>

-----------------------------------------------------------------------------
(* Numbers: a float is [na, n, d]: NaN, or the rational n/d (d > 0, lowest
   terms) counted in 1/Scale units *)

RECURSIVE GCD(_, _)
GCD(a, b) == IF b = 0 THEN a ELSE GCD(b, a % b)

Abs(x) == IF x < 0 THEN -x ELSE x

NaNum == [na |-> TRUE, n |-> 0, d |-> 1]

Num(n, d) ==
    LET g == GCD(Abs(n), d)
    IN  [na |-> FALSE, n |-> n \div g, d |-> d \div g]

RatAdd(a, b) == Num(a.n * b.d + b.n * a.d, a.d * b.d)
RatSub(a, b) ==
    IF a.na \/ b.na THEN NaNum ELSE Num(a.n * b.d - b.n * a.d, a.d * b.d)
(* comparisons with NaN are false *)
RatGt(a, b) == ~a.na /\ ~b.na /\ a.n * b.d > b.n * a.d
RatGeq(a, b) == ~a.na /\ ~b.na /\ a.n * b.d >= b.n * a.d

RECURSIVE RatSum(_)
RatSum(s) == IF s = <<>> THEN Num(0, 1) ELSE RatAdd(Head(s), RatSum(Tail(s)))

(* Series.dropna(): the defined values, in order *)
DropNa(s) ==
    LET idx == SelectIdx([i \in 1..Len(s) |-> ~s[i].na], Len(s), 1)
    IN  [k \in 1..Len(idx) |-> s[idx[k]]]

(* Series.mean() of a list of defined values; NaN for the empty list *)
Mean(s) ==
    IF s = <<>> THEN NaNum
    ELSE LET t == RatSum(s) IN Num(t.n, t.d * Len(s))

(* round(x, k): x to the nearest multiple of step units, ties to the even
   multiple; the result is the number of steps *)
Round(x, step) ==
    LET m == x.d * step
        q == x.n \div m
        r == x.n - q * m
    IN  IF 2 * r < m THEN q
        ELSE IF 2 * r > m THEN q + 1
        ELSE IF q % 2 = 0 THEN q ELSE q + 1

-----------------------------------------------------------------------------
(* The input frame.  A raw row is
     [Trainer, CreationDate, scores, texts]
   Trainer       a string; NaN stands for the missing value of read_csv
   CreationDate  [kind, day, hour, minute, pm]: kind "na" (missing),
                 "bad" (not in the '%b %d, %Y %I:%M %p' format) or "date"
   scores        one cell per column of ScoreColumnNames:
                 [kind, v], kind "na" | "empty" | "nan" | "text" | "num"
   texts         one cell per column of TextColumnNames: [na, s]          *)

NaN == "NaN"

(* the frame's survey columns; the names carry the question numbers *)
ScoreColumnNames ==
    << <<"1", ".", "3", " ", "O", "v", "e", "r", "a", "l", "l", " ", "s", "a", "t", "i", "s", "f", "a", "c", "t", "i", "o", "n">>,
       <<"2", ".", "8", " ", "T", "r", "a", "i", "n", "e", "r", " ", "w", "a", "s", " ", "p", "r", "e", "p", "a", "r", "e", "d">> >>

TextColumnNames ==
    << <<"3", ".", "1", "1", "_", "T", "o", "p", "i", "c", "s", " ", "c", "o", "v", "e", "r", "e", "d">>,
       <<"3", ".", "1", "2", "_", "W", "h", "a", "t", " ", "w", "e", "n", "t", " ", "w", "e", "l", "l">>,
       <<"3", ".", "1", "3", "_", "O", "t", "h", "e", "r", " ", "c", "o", "m", "m", "e", "n", "t", "s">> >>

(* score_cols: the prefixes the script looks for *)
score_cols ==
    << <<"1", ".", "3">>, <<"1", ".", "4">>, <<"2", ".", "8">>, <<"2", ".", "9">>,
       <<"v", "1", "_", "1", ".", "2">>, <<"v", "2", "_", "1", ".", "1">>,
       <<"v", "2", "_", "1", ".", "2">> >>

StartsWith(s, p) == Len(s) >= Len(p) /\ SubSeq(s, 1, Len(p)) = p

(* actual_score_cols: for each prefix, the first column that starts with it *)
actual_score_cols ==
    LET hit(p) == {c \in 1..Len(ScoreColumnNames) : StartsWith(ScoreColumnNames[c], score_cols[p])}
        found == SelectIdx([p \in 1..Len(score_cols) |-> hit(p) # {}], Len(score_cols), 1)
    IN  [k \in 1..Len(found) |->
            CHOOSE c \in hit(found[k]) : \A c2 \in hit(found[k]) : c <= c2]

(* text_cols: the columns whose name contains '3.12' or '3.13' *)
text_cols ==
    SelectIdx([c \in 1..Len(TextColumnNames) |->
                  \/ Contains(TextColumnNames[c], <<"3", ".", "1", "2">>)
                  \/ Contains(TextColumnNames[c], <<"3", ".", "1", "3">>)],
              Len(TextColumnNames), 1)

DigitChars == <<"0", "1", "2", "3", "4", "5", "6", "7", "8", "9">>

RECURSIVE Digits(_)
Digits(i) ==
    IF i < 10 THEN <<DigitChars[i + 1]>>
    ELSE Digits(i \div 10) \o <<DigitChars[(i % 10) + 1]>>

(* f"R{i:04d}" *)
RowId(i) ==
    LET ds == Digits(i)
    IN  <<"R">> \o Rep("0", IF Len(ds) < RowIdWidth THEN RowIdWidth - Len(ds) ELSE 0) \o ds

NaT == [nat |-> TRUE, t |-> 0]

(* pd.to_datetime(..., format='%b %d, %Y %I:%M %p', errors='coerce'):
   minutes since the start of the month, or NaT; %I is the 12-hour clock *)
ParseDate(c) ==
    IF c.kind = "date" /\ c.hour \in 1..12 /\ c.minute \in 0..59
    THEN [nat |-> FALSE,
          t |-> (c.day * 24 + (c.hour % 12) + (IF c.pm THEN 12 ELSE 0)) * 60 + c.minute]
    ELSE NaT

(* clean_numeric: missing, '', 'nan' and anything float() rejects give NaN *)
clean_numeric(val) ==
    IF val.kind = "na" \/ val.kind = "empty" \/ val.kind = "nan" THEN NaNum
    ELSE IF val.kind = "num" THEN Num(val.v, 1)
    ELSE NaNum

(* variant of CompositeScore: a row without any score counts as 0 *)
CompositeScore_ZeroFill(cleaned) ==
    LET vals == DropNa([k \in 1..Len(actual_score_cols) |-> cleaned[actual_score_cols[k]]])
    IN  IF vals = <<>> THEN Num(0, 1) ELSE Mean(vals)

(* df[actual_score_cols].mean(axis=1, skipna=True) for one row *)
CompositeScore(cleaned) ==
    LET vals == DropNa([k \in 1..Len(actual_score_cols) |-> cleaned[actual_score_cols[k]]])
    IN  IF vals = <<>> THEN NaNum ELSE Mean(vals)

(* lines 408-431 for row i of the file *)
NormalizeRow(raw, i) ==
    LET cleaned == [c \in 1..Len(raw.scores) |->
                       IF \E k \in 1..Len(actual_score_cols) : actual_score_cols[k] = c
                       THEN clean_numeric(raw.scores[c])
                       ELSE NaNum]
    IN  [row_id |-> RowId(i),
         pos |-> i,
         Trainer |-> raw.Trainer,
         creation_datetime |-> ParseDate(raw.CreationDate),
         composite_score |-> CompositeScore(cleaned),
         texts |-> raw.texts]

-----------------------------------------------------------------------------
(* Free-text answers: [na, s], a missing value or a sequence of characters *)

Text(s) == [na |-> FALSE, s |-> s]
TextNa == [na |-> TRUE, s |-> <<>>]

TEmpty == Text(<<>>)
TNanLit == Text(<<"n", "a", "n">>)
TDash == Text(<<"-">>)
(* 8 characters, with a keyword *)
TShort8 == Text(<<"s", "o", " ", "g", "r", "e", "a", "t">>)
(* 22 characters, 9 after strip(), with keywords *)
TPadded == Text(<<" ", " ", " ", " ", " ", " ", "g", "r", "e", "a", "t", " ", "f", "u", "n", " ", " ", " ", " ", " ", " ", " ">>)
(* 19 characters, with a keyword *)
T19 == Text(<<"g", "r", "e", "a", "t", " ", "s", "e", "s", "s", "i", "o", "n", " ", "t", "o", "d", "a", "y">>)
(* exactly 20 characters, the keyword in upper case *)
T20 == Text(<<"R", "e", "a", "l", "l", "y", " ", "G", "R", "E", "A", "T", " ", "t", "r", "a", "i", "n", "e", "r">>)
(* 30 characters, no keyword *)
TNoKey == Text(<<"T", "h", "e", " ", "r", "o", "o", "m", " ", "w", "a", "s", " ", "r", "a", "t", "h", "e", "r", " ", "c", "o", "l", "d", " ", "t", "o", "d", "a", "y">>)
(* the keyword "appreciated" inside a longer word *)
TSubstr == Text(<<"A", "p", "p", "r", "e", "c", "i", "a", "t", "e", "d", "l", "y", " ", "s", "o", "l", "i", "d", " ", "c", "o", "a", "c", "h", "i", "n", "g">>)
TClear == Text(<<"V", "e", "r", "y", " ", "c", "l", "e", "a", "r", " ", "a", "n", "d", " ", "p", "a", "t", "i", "e", "n", "t", " ", "g", "u", "i", "d", "e">>)
(* exactly MaxQuoteLen characters, MaxQuoteLen + 1 characters, and a text
   whose only keyword lies beyond MaxQuoteLen *)
T200 == Text(<<"g", "r", "e", "a", "t">> \o Rep("z", MaxQuoteLen - 5))
T201 == Text(<<"f", "u", "n">> \o Rep("y", MaxQuoteLen - 2))
TLateKey == Text(Rep("x", MaxQuoteLen) \o <<"b", "e", "s", "t">>)
(* the answer in the column that is not a quote source *)
TOther == Text(<<"E", "x", "c", "e", "l", "l", "e", "n", "t", " ", "t", "o", "p", "i", "c", "s", " ", "o", "v", "e", "r", "a", "l", "l">>)

(* the answers that occur in the inputs *)
TextCells ==
    {TextNa, TEmpty, TNanLit, TDash, TShort8, TPadded, T19, T20, TNoKey, TSubstr,
     TClear, T200, T201, TLateKey, TOther}

-----------------------------------------------------------------------------
(* Quote extraction: extract_positive_quotes *)

(* line 33: the values skipped as empty *)
SkipText(text) ==
    text.na \/ text.s = <<>> \/ text.s = <<"n", "a", "n">> \/ text.s = <<"-">>

(* variant of TooShort: the bound taken inclusively *)
TooShort_Inclusive(text_str) == Len(text_str) <= MinQuoteLen

(* line 38: too short after strip() *)
TooShort(text_str) == Len(text_str) < MinQuoteLen

(* lines 47-48: any(keyword in text_lower for keyword in positive_keywords) *)
has_positive(text_str) ==
    LET text_lower == Lower(text_str)
    IN  \E k \in 1..Len(positive_keywords) : Contains(text_lower, positive_keywords[k])

(* lines 52-53: at most MaxQuoteLen characters, then "..." *)
Truncate(text_str) ==
    IF Len(text_str) > MaxQuoteLen
    THEN SubSeq(text_str, 1, MaxQuoteLen) \o Ellipsis
    ELSE text_str

(* variant of QuoteOf: the length is taken before strip() *)
QuoteOf_LenBeforeStrip(text) ==
    IF SkipText(text) THEN [hit |-> FALSE, quote |-> <<>>]
    ELSE LET text_str == Strip(text.s)
         IN  IF Len(text.s) < MinQuoteLen THEN [hit |-> FALSE, quote |-> <<>>]
             ELSE IF has_positive(text_str)
                  THEN [hit |-> TRUE, quote |-> Truncate(text_str)]
                  ELSE [hit |-> FALSE, quote |-> <<>>]

(* the loop body, lines 29-59, for one cell: whether a quote is appended, and
   its text *)
QuoteOf(text) ==
    IF SkipText(text) THEN [hit |-> FALSE, quote |-> <<>>]
    ELSE LET text_str == Strip(text.s)
         IN  IF TooShort(text_str) THEN [hit |-> FALSE, quote |-> <<>>]
             ELSE IF has_positive(text_str)
                  THEN [hit |-> TRUE, quote |-> Truncate(text_str)]
                  ELSE [hit |-> FALSE, quote |-> <<>>]

(* QuoteOf, tabulated over the answers that occur in the inputs *)
QuoteTable == [text \in TextCells |-> QuoteOf(text)]

(* extract_positive_quotes(df, text_cols): column by column, and within a
   column row by row in the frame's order *)
extract_positive_quotes(frame, cols) ==
    LET R == Len(frame)
        colOf(k) == cols[((k - 1) \div R) + 1]
        rowOf(k) == frame[((k - 1) % R) + 1]
        cell(k) == QuoteTable[rowOf(k).texts[colOf(k)]]
        idx == SelectIdx([k \in 1..(Len(cols) * R) |-> cell(k).hit], Len(cols) * R, 1)
    IN  [j \in 1..Len(idx) |->
            [row_id |-> rowOf(idx[j]).row_id,
             quote |-> cell(idx[j]).quote,
             source_column |-> TextColumnNames[colOf(idx[j])]]]

(* lines 505-506: longest first (stable), the first TopQuotes *)
SelectQuotes(all_quotes) ==
    LET n == Len(all_quotes)
        geq == [a \in 1..n |-> [b \in 1..n |->
                   Len(all_quotes[a].quote) >= Len(all_quotes[b].quote)]]
        order == StableSortDesc([i \in 1..n |-> i], geq)
    IN  Take([i \in 1..n |-> all_quotes[order[i]]], TopQuotes)

-----------------------------------------------------------------------------
(* Cohort split and ranking *)

(* groupby('Trainer') yields the groups in ascending key order: the order of
   TrainerOrder *)
TrainerOrder == <<"ana@be.org", "ben_k@be.org", "cy.lee@be.org">>

GroupKeys(frame) ==
    LET idx == SelectIdx([k \in 1..Len(TrainerOrder) |->
                             \E i \in 1..Len(frame) : frame[i].Trainer = TrainerOrder[k]],
                         Len(TrainerOrder), 1)
    IN  [j \in 1..Len(idx) |-> TrainerOrder[idx[j]]]

(* the rows of one trainer, in the frame's order *)
GroupOf(frame, trainer) ==
    LET idx == SelectIdx([i \in 1..Len(frame) |-> frame[i].Trainer = trainer], Len(frame), 1)
    IN  [j \in 1..Len(idx) |-> frame[idx[j]]]

(* variant of ValidRow: only the trainer is required *)
ValidRow_TrainerOnly(r) == r.Trainer # NaN

(* line 434: rows with a trainer and a parsed date *)
ValidRow(r) == r.Trainer # NaN /\ ~r.creation_datetime.nat

FilterValid(frame) ==
    LET idx == SelectIdx([i \in 1..Len(frame) |-> ValidRow(frame[i])], Len(frame), 1)
    IN  [j \in 1..Len(idx) |-> frame[idx[j]]]

(* variant of TooFewResponses: a threshold of 2 *)
TooFewResponses_Two(n_responses) == n_responses < MinResponses - 1

(* line 445 *)
TooFewResponses(n_responses) == n_responses < MinResponses

RECURSIVE Arrangements(_, _)
(* the arrangements of the index set S in which ts never decreases *)
Arrangements(S, ts) ==
    IF S = {} THEN {<<>>}
    ELSE UNION {{<<i>> \o rest : rest \in Arrangements(S \ {i}, ts)} :
                  i \in {j \in S : \A k \in S : ts[j] <= ts[k]}}

(* group.sort_values('creation_datetime'): the default sort kind is
   'quicksort', which does not promise to keep equal timestamps in their
   original order; every arrangement ascending by timestamp is possible *)
SortedByDate(group) ==
    LET ts == [i \in 1..Len(group) |-> group[i].creation_datetime.t]
    IN  {[i \in 1..Len(group) |-> group[p[i]]] : p \in Arrangements(1..Len(group), ts)}

(* variant of MidPoint: the half rounded up *)
MidPoint_Ceil(n) == (n + 1) \div 2

(* line 452 *)
MidPoint(n) == n \div 2

(* variant of BothHalvesScored: one scored half is enough *)
BothHalvesScored_Either(early_scores, late_scores) ==
    Len(early_scores) > 0 \/ Len(late_scores) > 0

(* line 460 *)
BothHalvesScored(early_scores, late_scores) ==
    Len(early_scores) > 0 /\ Len(late_scores) > 0

Composites(half) == [i \in 1..Len(half) |-> half[i].composite_score]

(* variant of SortStats: ascending (reverse=True left out) *)
SortStats_Ascending(stats) ==
    LET n == Len(stats)
        leq == [a \in 1..n |-> [b \in 1..n |->
                   RatGeq(stats[b].improvement, stats[a].improvement)]]
        order == StableSortDesc([i \in 1..n |-> i], leq)
    IN  [i \in 1..n |-> stats[order[i]]]

(* lines 475-480: sort by improvement, descending, stable *)
SortStats(stats) ==
    LET n == Len(stats)
        geq == [a \in 1..n |-> [b \in 1..n |->
                   RatGeq(stats[a].improvement, stats[b].improvement)]]
        order == StableSortDesc([i \in 1..n |-> i], geq)
    IN  [i \in 1..n |-> stats[order[i]]]

top_2 == Take(trainer_stats, TopTrainers)

(* variant of CaseStudy: the rounded improvement_score is compared *)
CaseStudy_Rounded(improvement) ==
    LET score == Round(improvement, Scale \div 1000)
    IN  IF score > 1000 THEN "exceptional growth"
        ELSE IF score > 500 THEN "strong improvement"
        ELSE IF score > 0 THEN "steady upward trajectory"
        ELSE "maintained consistently high standards"

(* lines 509-516; the thresholds in 1/Scale units *)
CaseStudy(improvement) ==
    IF RatGt(improvement, Num(Scale, 1)) THEN "exceptional growth"
    ELSE IF RatGt(improvement, Num(Scale \div 2, 1)) THEN "strong improvement"
    ELSE IF RatGt(improvement, Num(0, 1)) THEN "steady upward trajectory"
    ELSE "maintained consistently high standards"

(* lines 518-533 *)
BuildResult(idx, trainer_data) ==
    [rank |-> idx,
     trainer_name |-> trainer_data.trainer,
     n_responses |-> trainer_data.n_responses,
     improvement_score |-> Round(trainer_data.improvement, Scale \div 1000),
     mean_early_score |-> Round(trainer_data.mean_early, Scale \div 100),
     mean_late_score |-> Round(trainer_data.mean_late, Scale \div 100),
     quotes |-> LET sel == SelectQuotes(extract_positive_quotes(trainer_data.group_df, text_cols))
                IN  [i \in 1..Len(sel) |->
                        [row_id |-> sel[i].row_id,
                         quote |-> sel[i].quote,
                         source |-> sel[i].source_column]],
     case_study_angle |-> CaseStudy(trainer_data.improvement)]

-----------------------------------------------------------------------------
(* Inputs *)

Score(v) == [kind |-> "num", v |-> v]
ScoreNa == [kind |-> "na", v |-> 0]
ScoreEmpty == [kind |-> "empty", v |-> 0]
ScoreNanLit == [kind |-> "nan", v |-> 0]
ScoreJunk == [kind |-> "text", v |-> 0]

Date(day, hour, minute, pm) ==
    [kind |-> "date", day |-> day, hour |-> hour, minute |-> minute, pm |-> pm]
DateNa == [kind |-> "na", day |-> 0, hour |-> 0, minute |-> 0, pm |-> FALSE]
DateBad == [kind |-> "bad", day |-> 0, hour |-> 0, minute |-> 0, pm |-> FALSE]

Row(trainer, date, s1, s2, t1, t2, t3) ==
    [Trainer |-> trainer, CreationDate |-> date, scores |-> <<s1, s2>>,
     texts |-> <<t1, t2, t3>>]

RECURSIVE SeqsUpTo(_, _)
(* the sequences over S of length at most n *)
SeqsUpTo(S, n) ==
    IF n = 0 THEN {<<>>}
    ELSE LET shorter == SeqsUpTo(S, n - 1)
         IN  shorter \cup {Append(s, x) : s \in {t \in shorter : Len(t) = n - 1}, x \in S}

(* Cohort inputs: up to maxRows rows of one trainer in any order; rows without
   a trainer or with an unparsable date, equal timestamps (12:30 AM is before
   1:00 AM), rows without any usable score *)
CohortRows ==
    { Row(NaN, Date(1, 12, 30, FALSE), Score(4 * Scale), ScoreNa, TextNa, TClear, TextNa),
      Row("ana@be.org", DateBad, Score(4 * Scale), ScoreNa, TextNa, TClear, TextNa),
      Row("ana@be.org", Date(1, 12, 30, FALSE), Score(2 * Scale), ScoreNa, TextNa, TextNa, TextNa),
      Row("ana@be.org", Date(1, 12, 30, FALSE), ScoreJunk, ScoreNa, TextNa, TextNa, TextNa),
      Row("ana@be.org", Date(1, 1, 0, FALSE), Score(4 * Scale), Score(2 * Scale), TextNa, TClear, TextNa),
      Row("ana@be.org", Date(1, 1, 30, FALSE), ScoreEmpty, ScoreNanLit, TextNa, TextNa, TextNa) }

CohortInputs(maxRows) == SeqsUpTo(CohortRows, maxRows)

(* Ranking inputs: for every trainer of TrainerOrder a block of 2..maxPer
   rows with distinct timestamps and a score of RankScores each; the first
   trainer has one answer that can be quoted *)
RankScores == {2 * Scale, 4 * Scale}

Block(trainer, scores) ==
    [i \in 1..Len(scores) |->
        Row(trainer, Date(1, i, 0, FALSE), Score(scores[i]), ScoreNa, TextNa,
            IF trainer = TrainerOrder[1] /\ i = 1 THEN TClear ELSE TextNa, TextNa)]

Blocks(trainer, S, lo, hi) ==
    UNION {{Block(trainer, f) : f \in [1..n -> S]} : n \in lo..hi}

RankInputs(maxPer) ==
    {b1 \o b2 \o b3 : b1 \in Blocks(TrainerOrder[1], RankScores, MinResponses - 1, maxPer),
                      b2 \in Blocks(TrainerOrder[2], RankScores, MinResponses - 1, maxPer),
                      b3 \in Blocks(TrainerOrder[3], RankScores, MinResponses - 1, maxPer)}

(* Narrative inputs: one trainer, MinResponses..maxPer rows, scores around the
   thresholds (1.0, 1.0002, 2.0, 3.0) *)
BucketScores == {Scale, Scale + 2, 2 * Scale, 3 * Scale}

BucketInputs(maxPer) == Blocks(TrainerOrder[1], BucketScores, MinResponses, maxPer)

(* Quote inputs: one trainer, MinResponses..maxRows rows; the answers of
   the first source column come from a palette that depends on the row, the
   second source column is empty or holds one qualifying answer *)
QuotePalette(i) ==
    IF i % 3 = 1 THEN {TextNa, TDash, TShort8, T20, T201}
    ELSE IF i % 3 = 2 THEN {TEmpty, TNanLit, TPadded, T19, T200, TNoKey}
    ELSE {TextNa, TSubstr, TLateKey}

QuoteRow(i, t2, t3) ==
    Row(TrainerOrder[1], Date(1, i, 0, FALSE), Score(i * Scale), ScoreNa, TOther, t2, t3)

RECURSIVE QuoteFrames(_)
QuoteFrames(n) ==
    IF n = 0 THEN {<<>>}
    ELSE {Append(f, QuoteRow(n, t2, t3)) :
            f \in QuoteFrames(n - 1), t2 \in QuotePalette(n), t3 \in {TextNa, TClear}}

QuoteInputs(maxRows) == UNION {QuoteFrames(n) : n \in MinResponses..maxRows}

-----------------------------------------------------------------------------
(* analyze_trainer_feedback.main *)

OutputFiles == {"results.json", "results.csv", "results.html"}

(* line 405: read_csv delivers the rows of the file *)
LoadCsv ==
    /\ pc = "load"
    /\ df' = csv
    /\ pc' = "normalize"
    /\ UNCHANGED <<csv, gi, halves, trainer_stats, results, files, opc, trainers, outreach_emails>>

(* line 405 raises: the file is missing or unreadable; the run ends before
   anything is written *)
LoadFail ==
    /\ pc = "load"
    /\ pc' = "failed"
    /\ UNCHANGED <<csv, df, gi, halves, trainer_stats, results, files, opc, trainers, outreach_emails>>

(* lines 408-431: row ids, parsed dates, cleaned scores, composite score *)
Normalize ==
    /\ pc = "normalize"
    /\ df' = [i \in 1..Len(df) |-> NormalizeRow(df[i], i)]
    /\ pc' = "filter"
    /\ UNCHANGED <<csv, gi, halves, trainer_stats, results, files, opc, trainers, outreach_emails>>

(* line 434 *)
Filter ==
    /\ pc = "filter"
    /\ df' = FilterValid(df)
    /\ gi' = 1
    /\ pc' = "group"
    /\ UNCHANGED <<csv, halves, trainer_stats, results, files, opc, trainers, outreach_emails>>

(* lines 441-472: one iteration of the loop over the groups.  halves keeps
   the iteration's early_half and late_half per trainer *)
GroupStep ==
    /\ pc = "group"
    /\ gi <= Len(GroupKeys(df))
    /\ LET trainer == GroupKeys(df)[gi]
           group0 == GroupOf(df, trainer)
           n_responses == Len(group0)
       IN  IF TooFewResponses(n_responses)
           THEN UNCHANGED <<halves, trainer_stats>>
           ELSE \E group \in SortedByDate(group0) :
                  LET mid_point == MidPoint(Len(group))
                      early_half == SubSeq(group, 1, mid_point)
                      late_half == SubSeq(group, mid_point + 1, Len(group))
                      early_scores == DropNa(Composites(early_half))
                      late_scores == DropNa(Composites(late_half))
                  IN  /\ halves' = halves @@ (trainer :> [early |-> early_half, late |-> late_half])
                      /\ IF BothHalvesScored(early_scores, late_scores)
                         THEN trainer_stats' = Append(trainer_stats,
                                  [trainer |-> trainer,
                                   n_responses |-> n_responses,
                                   mean_early |-> Mean(early_scores),
                                   mean_late |-> Mean(late_scores),
                                   improvement |-> RatSub(Mean(late_scores), Mean(early_scores)),
                                   group_df |-> group])
                         ELSE UNCHANGED trainer_stats
    /\ gi' = gi + 1
    /\ UNCHANGED <<pc, csv, df, results, files, opc, trainers, outreach_emails>>

(* lines 475-480, after the last group *)
Rank ==
    /\ pc = "group"
    /\ gi > Len(GroupKeys(df))
    /\ trainer_stats' = SortStats(trainer_stats)
    /\ pc' = "build"
    /\ UNCHANGED <<csv, df, gi, halves, results, files, opc, trainers, outreach_emails>>

(* lines 490-533: one iteration of the loop over top_2 *)
BuildStep ==
    /\ pc = "build"
    /\ Len(results) < Len(top_2)
    /\ results' = Append(results, BuildResult(Len(results) + 1, top_2[Len(results) + 1]))
    /\ UNCHANGED <<pc, csv, df, gi, halves, trainer_stats, files, opc, trainers, outreach_emails>>

(* lines 536-538 *)
WriteJson ==
    /\ pc = "build"
    /\ Len(results) = Len(top_2)
    /\ files' = [files EXCEPT !["results.json"] = "complete"]
    /\ pc' = "write_csv"
    /\ UNCHANGED <<csv, df, gi, halves, trainer_stats, results, opc, trainers, outreach_emails>>

(* lines 537-538 raise: open() fails (no outputs/ directory) and nothing is
   written, or the write fails after the file was created *)
WriteJsonFail ==
    /\ pc = "build"
    /\ Len(results) = Len(top_2)
    /\ \E left \in {"absent", "partial"} :
           files' = [files EXCEPT !["results.json"] = left]
    /\ pc' = "failed"
    /\ UNCHANGED <<csv, df, gi, halves, trainer_stats, results, opc, trainers, outreach_emails>>

(* lines 544-566 *)
WriteCsv ==
    /\ pc = "write_csv"
    /\ files' = [files EXCEPT !["results.csv"] = "complete"]
    /\ pc' = "write_html"
    /\ UNCHANGED <<csv, df, gi, halves, trainer_stats, results, opc, trainers, outreach_emails>>

(* line 566 raises (the disk is full, the file is locked) *)
WriteCsvFail ==
    /\ pc = "write_csv"
    /\ \E left \in {"absent", "partial"} :
           files' = [files EXCEPT !["results.csv"] = left]
    /\ pc' = "failed"
    /\ UNCHANGED <<csv, df, gi, halves, trainer_stats, results, opc, trainers, outreach_emails>>

(* lines 570-573 *)
WriteHtml ==
    /\ pc = "write_html"
    /\ files' = [files EXCEPT !["results.html"] = "complete"]
    /\ pc' = "done"
    /\ UNCHANGED <<csv, df, gi, halves, trainer_stats, results, opc, trainers, outreach_emails>>

(* lines 572-573 raise *)
WriteHtmlFail ==
    /\ pc = "write_html"
    /\ \E left \in {"absent", "partial"} :
           files' = [files EXCEPT !["results.html"] = left]
    /\ pc' = "failed"
    /\ UNCHANGED <<csv, df, gi, halves, trainer_stats, results, opc, trainers, outreach_emails>>

-----------------------------------------------------------------------------
(* generate_outreach.py *)

(* generate_email, lines 26-28 and 58-66: quotes[0] raises IndexError on an
   empty list *)
CanGenerateEmail(trainer_data) == Len(trainer_data.quotes) >= 1

generate_email(trainer_data) ==
    [trainer_email |-> trainer_data.trainer_name,
     evidence_quote |-> trainer_data.quotes[1].quote,
     evidence_row_id |-> trainer_data.quotes[1].row_id]

(* lines 71-75: run after the analysis has completed; results.json holds the
   results it wrote *)
OutreachLoad ==
    /\ opc = "idle"
    /\ pc = "done"
    /\ files["results.json"] = "complete"
    /\ trainers' = results
    /\ opc' = "loop"
    /\ UNCHANGED <<pc, csv, df, gi, halves, trainer_stats, results, files, outreach_emails>>

(* lines 83-85: one iteration of the loop over the trainers *)
OutreachStep ==
    /\ opc = "loop"
    /\ Len(outreach_emails) < Len(trainers)
    /\ LET trainer == trainers[Len(outreach_emails) + 1]
       IN  IF CanGenerateEmail(trainer)
           THEN outreach_emails' = Append(outreach_emails, generate_email(trainer))
                /\ opc' = opc
           ELSE UNCHANGED outreach_emails /\ opc' = "raised"
    /\ UNCHANGED <<pc, csv, df, gi, halves, trainer_stats, results, files, trainers>>

(* lines 97-99 *)
OutreachSave ==
    /\ opc = "loop"
    /\ Len(outreach_emails) = Len(trainers)
    /\ opc' = "done"
    /\ UNCHANGED <<pc, csv, df, gi, halves, trainer_stats, results, files, trainers, outreach_emails>>

Next ==
    \/ LoadCsv \/ LoadFail \/ Normalize \/ Filter \/ GroupStep \/ Rank \/ BuildStep
    \/ WriteJson \/ WriteJsonFail \/ WriteCsv \/ WriteCsvFail \/ WriteHtml \/ WriteHtmlFail
    \/ OutreachLoad \/ OutreachStep \/ OutreachSave

-----------------------------------------------------------------------------
(* Specifications: the same program on the four input families *)

InitWith(inputs) ==
    /\ csv \in inputs
    /\ pc = "load"
    /\ df = <<>>
    /\ gi = 1
    /\ halves = <<>>
    /\ trainer_stats = <<>>
    /\ results = <<>>
    /\ files = [f \in OutputFiles |-> "absent"]
    /\ opc = "idle"
    /\ trainers = <<>>
    /\ outreach_emails = <<>>

Init == InitWith(CohortInputs(MaxRows))
InitRank == InitWith(RankInputs(MaxPer))
InitBucket == InitWith(BucketInputs(MaxPer))
InitQuotes == InitWith(QuoteInputs(MaxQuoteRows))

Spec == Init /\ [][Next]_vars
SpecRank == InitRank /\ [][Next]_vars
SpecBucket == InitBucket /\ [][Next]_vars
SpecQuotes == InitQuotes /\ [][Next]_vars


-----------------------------------------------------------------------------
(* Properties *)

(* what the loop over the groups decided, read back from the halves *)
DefinedIn(half) == {i \in 1..Len(half) : ~half[i].composite_score.na}
HalfMean(half) == Mean(DropNa(Composites(half)))
RawImprovement(t) == RatSub(HalfMean(halves[t].late), HalfMean(halves[t].early))
Survivors ==
    {t \in DOMAIN halves : DefinedIn(halves[t].early) # {} /\ DefinedIn(halves[t].late) # {}}
Emitted == files["results.json"] = "complete"
EmittedNames == {results[i].trainer_name : i \in 1..Len(results)}

(* the valid records of a trainer in the input file: a trainer identity and
   a timestamp that parses *)
ValidPositions(t) ==
    {i \in 1..Len(csv) : /\ csv[i].Trainer # NaN
                         /\ csv[i].Trainer = t
                         /\ ~ParseDate(csv[i].CreationDate).nat}

(* C1: the emitted results are ordered by unrounded improvement, descending;
   there are exactly min(2, number of surviving trainers) of them; they are
   the surviving trainers with the largest improvements; their ranks are
   1, 2, ... in sequence order. *)
C1_RankedTopTwo ==
    Emitted =>
        /\ Len(results) = (IF Cardinality(Survivors) < 2 THEN Cardinality(Survivors) ELSE 2)
        /\ Cardinality(EmittedNames) = Len(results)
        /\ EmittedNames \subseteq Survivors
        /\ \A i \in 1..Len(results) : results[i].rank = i
        /\ \A i \in 1..(Len(results) - 1) :
               RatGeq(RawImprovement(results[i].trainer_name),
                      RawImprovement(results[i + 1].trainer_name))
        /\ \A t \in Survivors \ EmittedNames : \A i \in 1..Len(results) :
               RatGeq(RawImprovement(results[i].trainer_name), RawImprovement(t))

(* C1 witness: three trainers survive, two are emitted, the first by name is
   left out and the last by name is ranked first with a strictly larger
   improvement than the second. *)
C1_Witness ==
    /\ pc = "done"
    /\ Cardinality(Survivors) = 3
    /\ Len(results) = 2
    /\ results[1].trainer_name = TrainerOrder[3]
    /\ results[2].trainer_name = TrainerOrder[2]
    /\ RatGt(RawImprovement(TrainerOrder[3]), RawImprovement(TrainerOrder[2]))
    /\ RatGt(RawImprovement(TrainerOrder[2]), RawImprovement(TrainerOrder[1]))

(* C2: a trainer with fewer than 3 valid records (a trainer identity and a
   parsable timestamp) never appears in the output, and every emitted record
   has n_responses >= 3. *)
C2_MinimumSample ==
    \A i \in 1..Len(results) :
        /\ Cardinality(ValidPositions(results[i].trainer_name)) >= 3
        /\ results[i].n_responses >= 3

(* C2 witness: the run is done; a trainer has three or more rows with usable
   scores in the file but only two of them valid, and is not in the output. *)
C2_Witness ==
    /\ pc = "done"
    /\ \E t \in {csv[i].Trainer : i \in 1..Len(csv)} \ {NaN} :
           /\ Cardinality(ValidPositions(t)) = 2
           /\ Cardinality({i \in 1..Len(csv) : csv[i].Trainer = t /\ csv[i].scores[1].kind = "num"}) >= 3
           /\ t \notin EmittedNames

(* C3: a trainer whose early half or late half holds no record with a defined
   composite score is excluded: it is in no statistics entry and no result,
   and every emitted record has at least one defined composite score in each
   of its halves. *)
C3_UnscoredHalfExcluded ==
    /\ \A t \in DOMAIN halves \ Survivors :
           /\ t \notin EmittedNames
           /\ \A k \in 1..Len(trainer_stats) : trainer_stats[k].trainer # t
    /\ \A i \in 1..Len(results) :
           /\ results[i].trainer_name \in DOMAIN halves
           /\ DefinedIn(halves[results[i].trainer_name].early) # {}
           /\ DefinedIn(halves[results[i].trainer_name].late) # {}

(* C3 witness: the run is done; a trainer with three or more valid records
   has scored records in its late half, none in its early half, and is not in
   the output. *)
C3_Witness ==
    /\ pc = "done"
    /\ \E t \in DOMAIN halves :
           /\ DefinedIn(halves[t].early) = {}
           /\ DefinedIn(halves[t].late) # {}
           /\ t \notin EmittedNames
           /\ results = <<>>

(* C8: the case-study angle of every emitted record is the step function of
   the unrounded improvement x: x > 1.0 exceptional growth, else x > 0.5
   strong improvement, else x > 0 steady upward trajectory, else maintained
   high standards; the thresholds are strict. *)
C8_NarrativeBucket ==
    \A i \in 1..Len(results) :
        LET x == RawImprovement(results[i].trainer_name)
            angle == results[i].case_study_angle
        IN  /\ angle = "exceptional growth" <=> x.n > Scale * x.d
            /\ angle = "strong improvement" <=> (x.n <= Scale * x.d /\ 2 * x.n > Scale * x.d)
            /\ angle = "steady upward trajectory" <=> (2 * x.n <= Scale * x.d /\ x.n > 0)
            /\ angle = "maintained consistently high standards" <=> x.n <= 0

(* C8 witness: an emitted record whose improvement is positive, rounds to
   0.000, and is told as a steady upward trajectory. *)
C8_Witness ==
    /\ pc = "done"
    /\ \E i \in 1..Len(results) :
           /\ RawImprovement(results[i].trainer_name).n > 0
           /\ results[i].improvement_score = 0
           /\ results[i].case_study_angle = "steady upward trajectory"

(* C10: a cohort of n >= 3 valid records is split at floor(n/2): the early
   half is the first floor(n/2) records in timestamp order, the late half the
   other n - floor(n/2); the halves are disjoint and cover the cohort; for
   even n they are equal in size, for odd n the late half has one more. *)
C10_SplitAtFloorHalf ==
    \A t \in DOMAIN halves :
        LET n == Cardinality(ValidPositions(t))
            early == halves[t].early
            late == halves[t].late
            whole == early \o late
        IN  /\ n >= 3
            /\ 2 * Len(early) <= n /\ n <= 2 * Len(early) + 1
            /\ Len(late) = n - Len(early)
            /\ {early[i].pos : i \in 1..Len(early)} \cap {late[i].pos : i \in 1..Len(late)} = {}
            /\ {whole[i].pos : i \in 1..Len(whole)} = ValidPositions(t)
            /\ \A i \in 1..(Len(whole) - 1) :
                   whole[i].creation_datetime.t <= whole[i + 1].creation_datetime.t
            /\ (n % 2 = 0 => Len(early) = Len(late))
            /\ (n % 2 = 1 => Len(late) = Len(early) + 1)

(* C10 witness: a cohort of 3 valid records, not in timestamp order in the
   file, split into 1 early and 2 late records. *)
C10_Witness ==
    /\ pc = "done"
    /\ \E t \in DOMAIN halves :
           /\ Len(halves[t].early) = 1
           /\ Len(halves[t].late) = 2
           /\ halves[t].early[1].pos > halves[t].late[1].pos
           /\ halves[t].early[1].creation_datetime.t < halves[t].late[1].creation_datetime.t

(* a free-text value that may be quoted: not a placeholder, at least 20
   characters after trimming, a positive keyword in its lower-case form *)
QualifyingText(cell) ==
    /\ ~cell.na
    /\ cell.s \notin {<<>>, <<"n", "a", "n">>, <<"-">>}
    /\ Len(Strip(cell.s)) >= 20
    /\ \E k \in 1..Len(positive_keywords) : Contains(Lower(Strip(cell.s)), positive_keywords[k])

(* QualifyingText, tabulated over the answers that occur in the inputs *)
Qualifying == [cell \in TextCells |-> QualifyingText(cell)]

(* str.strip() of an answer, tabulated likewise *)
Trimmed == [cell \in TextCells |-> Strip(cell.s)]

(* the cells of a trainer's cohort in the quote-source columns *)
CohortCells(t) == ValidPositions(t) \X Range(text_cols)

(* C4: for every top-N trainer the quotes have at most 2 entries, and they are
   empty exactly when no record of the trainer's whole cohort, early or late,
   holds a qualifying text in a quote-source column. *)
C4_QuotesWhenAvailable ==
    \A i \in 1..Len(results) :
        /\ Len(results[i].quotes) <= 2
        /\ results[i].quotes = <<>> <=>
               ~\E pc2 \in CohortCells(results[i].trainer_name) :
                    Qualifying[csv[pc2[1]].texts[pc2[2]]]

(* C4 witness: the trainer's only qualifying text is in a record of the early
   half, and it is quoted. *)
C4_Witness ==
    /\ pc = "done"
    /\ \E i \in 1..Len(results) :
           LET t == results[i].trainer_name
               qual == {c \in CohortCells(t) : Qualifying[csv[c[1]].texts[c[2]]]}
           IN  /\ Cardinality(qual) = 1
               /\ \A c \in qual : \E k \in 1..Len(halves[t].early) : halves[t].early[k].pos = c[1]
               /\ Len(results[i].quotes) = 1

(* C5: the outreach generator never raises on a ranked trainer whose quotes
   are empty: it goes on to the remaining trainers and completes. *)
C5_OutreachToleratesNoQuotes ==
    opc = "raised" => Len(trainers[Len(outreach_emails) + 1].quotes) > 0

(* C6: output is all-or-nothing: when the run has failed, at any step, none of
   results.json, results.csv, results.html has been written. *)
C6_AllOrNothing ==
    pc = "failed" => \A f \in OutputFiles : files[f] = "absent"

(* C9: every emitted quote is the (cut) text of a quote-source cell that is
   present, is not "", "nan" or "-", has at least 20 characters after trimming
   and contains a keyword as a case-insensitive substring; so an absent,
   empty, "nan", "-" or shorter value is never quoted. *)
C9_OnlyQualifyingQuoted ==
    \A i \in 1..Len(results) : \A j \in 1..Len(results[i].quotes) :
        LET q == results[i].quotes[j]
        IN  \E p \in 1..Len(csv) : \E c \in Range(text_cols) :
                /\ RowId(p) = q.row_id
                /\ TextColumnNames[c] = q.source
                /\ Qualifying[csv[p].texts[c]]
                /\ Take(q.quote, 200) = Take(Trimmed[csv[p].texts[c]], 200)

(* C9 witness: the cohort holds an 8-character answer and a padded answer
   with keywords, neither is quoted, and an answer that has the keyword inside
   a longer word is. *)
C9_Witness ==
    /\ pc = "done"
    /\ Len(results) = 1
    /\ \E p \in 1..Len(csv) : csv[p].texts[2] = TShort8
    /\ \E p \in 1..Len(csv) : csv[p].texts[2] = TPadded
    /\ \E p \in 1..Len(csv) : csv[p].texts[2] = TSubstr
    /\ Len(results[1].quotes) = 1
    /\ results[1].quotes[1].quote = TSubstr.s

(* the score cells of input row p that hold a number, and the average of
   these numbers (NaN when there is none) *)
ScoredCells(p) == SelectSeq(csv[p].scores, LAMBDA cell : cell.kind = "num")
RawComposite(p) ==
    LET cells == ScoredCells(p)
    IN  Mean([k \in 1..Len(cells) |-> Num(cells[k].v, 1)])
MeanOfScored(half) ==
    LET scored == SelectSeq(half, LAMBDA r : ScoredCells(r.pos) # <<>>)
    IN  Mean([k \in 1..Len(scored) |-> RawComposite(scored[k].pos)])

(* C11: a record whose score fields are all absent has an undefined composite
   score; the means of the halves are the means over the records with a
   defined composite only; the record still counts in n_responses and in the
   cohort size n whose half, rounded down, is the split index. *)
C11_UnscoredCountedNotAveraged ==
    \A i \in 1..Len(results) :
        LET t == results[i].trainer_name
            n == Cardinality(ValidPositions(t))
            early == halves[t].early
            late == halves[t].late
            whole == early \o late
        IN  /\ \A k \in 1..Len(whole) :
                   whole[k].composite_score.na <=> ScoredCells(whole[k].pos) = <<>>
            /\ results[i].n_responses = n
            /\ Len(whole) = n
            /\ Len(early) = n \div 2
            /\ results[i].mean_early_score = Round(MeanOfScored(early), Scale \div 100)
            /\ results[i].mean_late_score = Round(MeanOfScored(late), Scale \div 100)

(* C11 witness: an emitted trainer with 4 valid records of which only 2 have
   a score, one in each half next to a record without any. *)
C11_Witness ==
    /\ pc = "done"
    /\ \E i \in 1..Len(results) :
           LET early == halves[results[i].trainer_name].early
               late == halves[results[i].trainer_name].late
           IN  /\ results[i].n_responses = 4
               /\ Len(early) = 2 /\ Len(late) = 2
               /\ Cardinality(DefinedIn(early)) = 1
               /\ Cardinality(DefinedIn(late)) = 1

(* C12: the records of a trainer are sorted by timestamp with a stable sort:
   two records of the cohort with equal timestamps stand in the order of
   their input rows, in the cohort and so across the early and late halves. *)
C12_TiesKeepInputOrder ==
    \A t \in DOMAIN halves :
        LET whole == halves[t].early \o halves[t].late
        IN  \A i \in 1..Len(whole) : \A j \in (i + 1)..Len(whole) :
                whole[i].creation_datetime.t = whole[j].creation_datetime.t
                    => whole[i].pos < whole[j].pos

(* the input rows with a trainer identity and a timestamp that parses *)
ValidInput == {p \in 1..Len(csv) : csv[p].Trainer # NaN /\ ~ParseDate(csv[p].CreationDate).nat}

(* C13: a record without trainer identity or without a parsable timestamp is
   left out of everything after the filter: the filtered frame, every cohort
   and its halves, n_responses and the 3-record threshold, the means and the
   quotes; an unparsable timestamp becomes a missing one and the run goes on.
   Row ids are given by input position before the filter, so a surviving
   record keeps the id of its position whatever was dropped. *)
C13_InvalidRecordsExcluded ==
    /\ pc \notin {"load", "normalize"} =>
           \A j \in 1..Len(df) :
               /\ df[j].row_id = RowId(df[j].pos)
               /\ df[j].Trainer = csv[df[j].pos].Trainer
               /\ df[j].texts = csv[df[j].pos].texts
               /\ df[j].creation_datetime.nat <=> csv[df[j].pos].CreationDate.kind # "date"
    /\ pc = "filter" => Len(df) = Len(csv) /\ \A j \in 1..Len(df) : df[j].pos = j
    /\ pc \notin {"load", "normalize", "filter", "failed"} =>
           /\ {df[j].pos : j \in 1..Len(df)} = ValidInput
           /\ \A j \in 1..(Len(df) - 1) : df[j].pos < df[j + 1].pos
    /\ \A t \in DOMAIN halves :
           LET whole == halves[t].early \o halves[t].late
           IN  /\ Len(whole) >= 3
               /\ \A k \in 1..Len(whole) :
                      /\ whole[k].pos \in ValidInput
                      /\ csv[whole[k].pos].Trainer = t
    /\ \A i \in 1..Len(results) :
           LET t == results[i].trainer_name
               mine == {p \in ValidInput : csv[p].Trainer = t}
           IN  /\ results[i].n_responses = Cardinality(mine)
               /\ Cardinality(mine) >= 3
               /\ \A j \in 1..Len(results[i].quotes) :
                      \E p \in mine : \E c \in Range(text_cols) :
                          /\ results[i].quotes[j].row_id = RowId(p)
                          /\ results[i].quotes[j].source = TextColumnNames[c]
                          /\ results[i].quotes[j].quote = Truncate(Strip(csv[p].texts[c].s))

(* C13 witness: the file starts with a record whose timestamp does not parse
   and whose answer could be quoted; the run is done, the trainer of that
   record is emitted with 3 of its 4 records counted, and the one quote is
   the answer of a later record under the id of its input position. *)
C13_Witness ==
    /\ pc = "done"
    /\ Len(csv) = 4
    /\ csv[1].CreationDate.kind = "bad"
    /\ Qualifying[csv[1].texts[2]]
    /\ Len(results) = 1
    /\ results[1].trainer_name = csv[1].Trainer
    /\ results[1].n_responses = 3
    /\ Len(results[1].quotes) = 1
    /\ \E p \in 2..4 : results[1].quotes[1].row_id = RowId(p) /\ Qualifying[csv[p].texts[2]]

=============================================================================
